---- MODULE Spec2Model ----
(***************************************************************************)
(* Model of network.py: a script that walks a hardcoded list of hostnames, *)
(* starts `ping <host>` through os.popen for each, tests the value bound   *)
(* to `reply` for the substring "Received = 4" and prints an UP or a DOWN  *)
(* line.  The ping processes run concurrently with the interpreter and     *)
(* write their report into a pipe.                                         *)
(***************************************************************************)
EXTENDS Integers, Sequences, FiniteSets, TLC

VARIABLES
    pc,       \* position of the interpreter in the script
    idx,      \* number of items the for loop has taken from ip_list
    url,      \* the loop variable
    reply,    \* the value bound to `reply`
    stdout,   \* lines printed so far, each a sequence of space-separated fields
    exc,      \* the uncaught exception that ended the run, or "none"
    child,    \* child[i]: state of the ping process started for list position i
    pipe,     \* pipe[i]: what that process has written to its pipe so far
    spawned,  \* spawned[i]: number of os.popen calls made for list position i
    net,      \* net[i]: the full report ping writes for ip_list[i] (environment)
    run,      \* number of the current execution of the script
    outs      \* outs[r]: the standard output of the finished execution r

vars == <<pc, idx, url, reply, stdout, exc, child, pipe, spawned, net, run, outs>>

\* ip_list = ["google.com", "facebook.com", "punchng.com"]
ip_list == <<"google.com", "facebook.com", "punchng.com">>

Positions == 1..Len(ip_list)

\* How many times the script is executed against the same network.
MaxRuns == 2

\* The literal searched for on line 8.
Needle == "Received = 4"

\* The reports a ping process can write, as sequences of text fragments:
\* all four echoes answered, some, none, an error text, nothing at all.
Reports ==
    { <<"Pinging", "Sent = 4", "Received = 4", "Lost = 0">>,
      <<"Pinging", "Sent = 4", "Received = 2", "Lost = 2">>,
      <<"Pinging", "Sent = 4", "Received = 0", "Lost = 4">>,
      <<"could not find host">>,
      <<>> }

\* text contains the fragment: Python's `needle in text` for a str text.
Contains(text, needle) == \E k \in 1..Len(text) : text[k] = needle

\* The value of an unbound name, before line 7 has run.
Unbound == [type |-> "unbound", stream |-> 0, text |-> <<>>]

\* Mutant: the stream is read to its end and `reply` is the text (`.read()`).
ReadCall(s) == [type |-> "str", stream |-> s, text |-> net[s]]

\* Mutant: `reply` is whatever is in the pipe at the moment, without waiting.
ReadAvailable(s) == [type |-> "str", stream |-> s, text |-> pipe[s]]

\* os.popen(...).read : the bound method of the stream, not called.
ReadAttr(s) == [type |-> "builtin_function_or_method", stream |-> s, text |-> <<>>]

\* Mutant: a membership test that answers False for an object that supports none.
MembershipLenient(needle, container) ==
    IF container.type = "str"
    THEN [raised |-> FALSE, val |-> Contains(container.text, needle)]
    ELSE [raised |-> FALSE, val |-> FALSE]

\* `needle in container`: a substring test on a str; a TypeError on an object
\* that has no __contains__, __iter__ or __getitem__, such as a bound method.
Membership(needle, container) ==
    IF container.type = "str"
    THEN [raised |-> FALSE, val |-> Contains(container.text, needle)]
    ELSE [raised |-> TRUE, val |-> FALSE]

\* f"UP {url} The server is up and running"
UpLine(h) == <<"UP", h, "The server is up and running">>

\* f"DOWN {url} The server is down, contact your Network Administrator"
DownLine(h) == <<"DOWN", h, "The server is down, contact your Network Administrator">>

\* The interpreter has exited, normally or by an uncaught exception.
Terminated == pc \in {"done", "error"}

\* The script's variables when the interpreter starts.
Start ==
    /\ pc = "for"
    /\ idx = 0
    /\ url = "unbound"
    /\ reply = Unbound
    /\ stdout = <<>>
    /\ exc = "none"
    /\ child = [i \in Positions |-> "none"]
    /\ pipe = [i \in Positions |-> <<>>]
    /\ spawned = [i \in Positions |-> 0]

Init ==
    /\ Start
    /\ net \in [Positions -> Reports]
    /\ run = 1
    /\ outs = <<>>

\* line 6: `for url in ip_list:` takes the next item, or leaves the loop and
\* the script ends.
For ==
    /\ pc = "for"
    /\ IF idx < Len(ip_list)
       THEN /\ idx' = idx + 1
            /\ url' = ip_list[idx + 1]
            /\ pc' = "popen"
       ELSE /\ pc' = "done"
            /\ UNCHANGED <<idx, url>>
    /\ UNCHANGED <<reply, stdout, exc, child, pipe, spawned, net, run, outs>>

\* line 7, os.popen(f"ping {url}"): the ping process is started; the call
\* returns the stream without waiting for it.
Popen ==
    /\ pc = "popen"
    /\ child' = [child EXCEPT ![idx] = "running"]
    /\ pipe' = [pipe EXCEPT ![idx] = <<>>]
    /\ spawned' = [spawned EXCEPT ![idx] = @ + 1]
    /\ pc' = "read"
    /\ UNCHANGED <<idx, url, reply, stdout, exc, net, run, outs>>

\* line 7, `reply = <stream>.read`: the attribute is fetched and bound.
AttrRead ==
    /\ pc = "read"
    /\ reply' = ReadAttr(idx)
    /\ pc' = "test"
    /\ UNCHANGED <<idx, url, stdout, exc, child, pipe, spawned, net, run, outs>>

\* Mutant: the exception of the test is swallowed and the loop is left.
ClassifySwallow ==
    /\ pc = "test"
    /\ LET t == Membership(Needle, reply) IN
       IF t.raised
       THEN /\ pc' = "done"
            /\ UNCHANGED <<stdout, exc>>
       ELSE /\ stdout' = Append(stdout, IF t.val THEN UpLine(url) ELSE DownLine(url))
            /\ pc' = "for"
            /\ exc' = exc
    /\ UNCHANGED <<idx, url, reply, child, pipe, spawned, net, run, outs>>

\* lines 8-11: the membership test and the print of the branch taken; an
\* exception of the test is uncaught and ends the run.
Classify ==
    /\ pc = "test"
    /\ LET t == Membership(Needle, reply) IN
       IF t.raised
       THEN /\ pc' = "error"
            /\ exc' = "TypeError"
            /\ stdout' = stdout
       ELSE /\ stdout' = Append(stdout, IF t.val THEN UpLine(url) ELSE DownLine(url))
            /\ pc' = "for"
            /\ exc' = exc
    /\ UNCHANGED <<idx, url, reply, child, pipe, spawned, net, run, outs>>

\* The ping process of position i writes the next fragment of its report,
\* as long as the interpreter holds the read end of the pipe.
ChildWrite(i) ==
    /\ child[i] = "running"
    /\ ~Terminated
    /\ Len(pipe[i]) < Len(net[i])
    /\ pipe' = [pipe EXCEPT ![i] = Append(@, net[i][Len(@) + 1])]
    /\ UNCHANGED <<pc, idx, url, reply, stdout, exc, child, spawned, net, run, outs>>

\* The ping process of position i ends: its report is complete, or the read
\* end of its pipe is gone with the interpreter.
ChildExit(i) ==
    /\ child[i] = "running"
    /\ Len(pipe[i]) = Len(net[i]) \/ Terminated
    /\ child' = [child EXCEPT ![i] = "exited"]
    /\ UNCHANGED <<pc, idx, url, reply, stdout, exc, pipe, spawned, net, run, outs>>

Script == For \/ Popen \/ AttrRead \/ Classify

Probe == \E i \in Positions : ChildWrite(i) \/ ChildExit(i)

Next == Script \/ Probe

\* One execution of the script.
Spec == Init /\ [][Next]_vars

\* The interpreter keeps executing while it can, and every ping process
\* that can end does end.
FairSpec ==
    /\ Init
    /\ [][Next]_vars
    /\ WF_vars(Script)
    /\ \A i \in Positions : WF_vars(ChildExit(i))

\* The script is executed again, by a fresh interpreter, against a network
\* that gives every target the same report.
Rerun ==
    /\ Terminated
    /\ run < MaxRuns
    /\ outs' = Append(outs, stdout)
    /\ run' = run + 1
    /\ pc' = "for"
    /\ idx' = 0
    /\ url' = "unbound"
    /\ reply' = Unbound
    /\ stdout' = <<>>
    /\ exc' = "none"
    /\ child' = [i \in Positions |-> "none"]
    /\ pipe' = [i \in Positions |-> <<>>]
    /\ spawned' = [i \in Positions |-> 0]
    /\ UNCHANGED net

NextRuns == Next \/ Rerun

\* Repeated executions of the script.
SpecRuns == Init /\ [][NextRuns]_vars

----------------------------------------------------------------------------
(* Properties *)

\* Every target has been probed and has its status line.
AllProcessed ==
    /\ \A i \in Positions : spawned[i] >= 1
    /\ Len(stdout) = Len(ip_list)

\* C1: when the run has ended, standard output holds exactly one status line
\* per hostname of the list, the i-th line being the line of the i-th target.
C1_OneLinePerTarget ==
    Terminated =>
        /\ Len(stdout) = Len(ip_list)
        /\ \A i \in Positions :
               stdout[i] \in {UpLine(ip_list[i]), DownLine(ip_list[i])}

\* C2: when the run has ended, every target whose report contains
\* "Received = 4" has its status line, and the line starts with UP.
C2_UpWhenAllReceived ==
    Terminated =>
        \A i \in Positions :
            Contains(net[i], Needle) => (i <= Len(stdout) /\ stdout[i][1] = "UP")

\* C3: when the run has ended, every target whose report does not contain
\* "Received = 4" has its status line, and the line starts with DOWN.
C3_DownOtherwise ==
    Terminated =>
        \A i \in Positions :
            ~Contains(net[i], Needle) => (i <= Len(stdout) /\ stdout[i][1] = "DOWN")

\* C5: when the run has ended, every list position has been probed exactly
\* once, never zero times and never more than once.
C5_EachProbedOnce ==
    Terminated => \A i \in Positions : spawned[i] = 1

\* C6: every execution of the script against the same reports has the same
\* standard output as every other one.
C6_SameOutput ==
    /\ \A r1, r2 \in 1..Len(outs) : outs[r1] = outs[r2]
    /\ Terminated => \A r \in 1..Len(outs) : outs[r] = stdout

\* A second execution has ended, after its first ping had written a complete
\* report that contains "Received = 4"; the output of the first is on record.
C6_Witness ==
    /\ run = 2
    /\ Len(outs) = 1
    /\ Terminated
    /\ pipe[1] = net[1]
    /\ Contains(net[1], Needle)

\* C7: the value tested on line 8 is the read method, never the text, and no
\* line of standard output is an UP line, whatever the ping reports.
C7_NeverUp ==
    /\ pc = "test" => reply.type = "builtin_function_or_method"
    /\ \A k \in 1..Len(stdout) : stdout[k][1] # "UP"

\* The first target has been classified while its ping had already written
\* a report that contains "Received = 4".
C7_Witness ==
    /\ Terminated
    /\ Contains(pipe[1], Needle)

\* C8: at most one ping process is running at any time, and the ping of a
\* later target is started only when the lines of all earlier ones are out.
C8_Sequential ==
    /\ Cardinality({i \in Positions : child[i] = "running"}) <= 1
    /\ \A i \in Positions : spawned[i] > 0 => Len(stdout) >= i - 1

\* A ping process is still running after its target has been classified.
C8_Witness ==
    /\ pc \notin {"for", "popen", "read", "test"}
    /\ \E i \in Positions : child[i] = "running"

\* C9: the run eventually ends, and it ends normally only when every target
\* has been probed and has its status line.
C9_Terminates ==
    /\ <>Terminated
    /\ [](pc = "done" => AllProcessed)

\* The run has ended and every ping process that was started has ended.
C9_Witness ==
    /\ Terminated
    /\ spawned[1] = 1
    /\ \A i \in Positions : child[i] # "running"

\* C10: the run never ends normally; it ends in a TypeError raised by the
\* test of the first target, with the first ping started once, nothing on
\* standard output, and the second and third targets never probed.
C10_FirstTestRaises ==
    /\ pc # "done"
    /\ stdout = <<>>
    /\ \A i \in Positions : i > 1 => spawned[i] = 0 /\ child[i] = "none"
    /\ Terminated =>
           /\ exc = "TypeError"
           /\ idx = 1
           /\ url = ip_list[1]
           /\ spawned[1] = 1

\* The run has ended in the exception.
C10_Witness ==
    /\ pc = "error"
    /\ child[1] # "none"

====
